---- MODULE Spec2Model ----
(***************************************************************************)
(* The local service supervisor of the desktop shell (src-tauri/src/lib.rs)*)
(* as a state machine: the startup task that resolves a server connection, *)
(* the oneshot/Shared readiness channel, the ensure_server_ready and       *)
(* kill_sidecar commands, the Exit handler and the log ingestion task.     *)
(*                                                                         *)
(* Strings are sequences of tokens, Option<T> is <<>> (None) or <<v>>      *)
(* (Some(v)).  Time is counted in quanta of TickSecs seconds.              *)
(***************************************************************************)
EXTENDS Integers, Sequences, FiniteSets, TLC

(* ------------------------------ bounds -------------------------------- *)

\* Retry choices the operator makes at most in one run.
MaxRetries == 4
\* Lines the child emits at most while the whole application is modelled.
MaxLines == 2
\* Longest duration of one sleep-and-probe step, in quanta.
MaxStep == 2
\* Seconds in one quantum of the model's clock.
TickSecs == 10
\* Lines the child emits at most in the log-heavy specification.
MaxBurst == 202
\* Longest hostname, in characters, drawn over HostAlphabet.
MaxHostLen == 3
\* Failed probes counted at most in the specification of the health probe.
MaxProbeFails == 3

(* -------------------------- program constants ------------------------- *)

MAX_LOG_ENTRIES == 200
\* Duration::from_secs(30) of the polling loop.
MAX_WAIT_SECS == 30

RETRY == "Retry"
START_LOCAL == "Start Local"

(* ------------------------------ inputs -------------------------------- *)

None == <<>>
Some(v) == <<v>>

\* Hostnames are sequences of characters.
WILDCARD_V4 == <<"0", ".", "0", ".", "0", ".", "0">>
LOOPBACK_V4 == <<"1", "2", "7", ".", "0", ".", "0", ".", "1">>
WILDCARD_V6 == <<":", ":">>
LOOPBACK_V6 == <<":", ":", "1">>
BRACKETED_LOOPBACK_V6 == <<"[", ":", ":", "1", "]">>
EXAMPLE_COM == <<"e", "x", "a", "m", "p", "l", "e", ".", "c", "o", "m">>

\* format!("http://{hostname}:{port}")
FormatUrl(hostname, port) == <<"http://", hostname, ":", port>>

\* What the settings store may hold under defaultServerUrl.
StoredUrls == {None, Some(FormatUrl(EXAMPLE_COM, 4096))}
\* What get_sidecar_port may return (OPENCODE_PORT or an ephemeral port).
Ports == {4096, 49152}
\* Values uuid::Uuid::new_v4() may produce.
Passwords == {"uuid-a", "uuid-b"}
\* What the operator dialog may return.
Custom(name) == <<"Custom", name>>
DialogResults == {Custom(RETRY), Custom(START_LOCAL), <<"Cancel">>}
\* The callers of ensure_server_ready.
Consumers == {1, 2}
\* The child's two output streams and the lines it may write.
Streams == {"stdout", "stderr"}
Lines == {"a\n"}
\* The pid of the one process the shell can spawn.
Pid == 1

(* ------------------------------ state --------------------------------- *)

VARIABLES
    storedUrl,      \* settings store: Option<String>
    cliConfig,      \* what cli::get_config returns: Option<Config>
    cliUrl,         \* URL derived from the CLI configuration: Option<String>
    pc,             \* position of the startup task
    custom_url,     \* run: the custom_url local
    dialogRes,      \* setup_server_connection: the dialog's result `res`, Option
    retries,        \* Retry choices made so far
    customProbes,   \* failed probes against the custom URL so far
    local_port,     \* setup_server_connection: local_port (0 before it is chosen)
    localProbe,     \* outcome of the probe before a spawn: "", "healthy", "unhealthy"
    password,       \* setup_server_connection: the generated password, Option
    held,           \* the CommandChild the startup task holds, Option<pid>
    res,            \* the result the startup task is about to send, Option
    elapsed,        \* timestamp.elapsed(), in quanta
    pollProbes,     \* failed polling probes so far
    probeCreds,     \* the credentials the polling probes carried
    spawned,        \* processes spawned so far
    procEnv,        \* OPENCODE_SERVER_PASSWORD of the spawned process, Option
    proc,           \* the spawned process: "none", "running", "killed"
    killCalls,      \* calls of CommandChild::kill so far
    child,          \* ServerState.child: Option<pid>
    status,         \* the oneshot channel behind ServerState.status
    published,      \* tx.send calls so far
    waiting,        \* consumers suspended in ensure_server_ready
    observed,       \* per consumer, every result ensure_server_ready returned
    logs,           \* LogState: the VecDeque
    history,        \* every entry ever pushed, in order
    snapLen,        \* Len(history) when get_logs ran (-1 before)
    path,           \* how the resolver ended: "", "custom", "adopt", "spawn", "timeout"
    appExited,      \* the Exit event has been handled
    cliConsulted,   \* run: cli::get_config was called
    platform,       \* the build: "windows" (cfg(windows)) or "other"
    job,            \* JobObjectState.job: "absent" (no such state), "none", "open"
    jobError,       \* JobObjectState.error: Option<String>
    jobMembers,     \* pids assigned to the job object
    crashed,        \* the application process ended without the Exit event
    hostname,       \* a hostname given to normalize_hostname_for_url
    normalized,     \* what normalize_hostname_for_url returned for it, Option
    probeCond,      \* the conditions of the last check_server_health call, Option
    probeResult,    \* what that call returned, Option
    probeFails,     \* check_server_health calls that returned false so far
    renormalized,   \* normalize_hostname_for_url of the normalized hostname, Option
    logLock,        \* the Mutex of LogState: "free" or what its holder is at
    pending         \* the entry the ingestion task is appending, Option

vars == <<storedUrl, cliUrl, pc, custom_url, dialogRes, retries, customProbes,
          local_port, localProbe, password, held, res, elapsed, pollProbes, probeCreds, spawned, procEnv,
          proc, killCalls, child, status, published, waiting, observed, logs,
          history, snapLen, path, appExited, cliConsulted, platform, job,
          jobError, jobMembers, crashed, hostname, normalized, probeCond,
          probeResult, probeFails, cliConfig, renormalized, logLock, pending>>

inputVars == <<storedUrl, cliConfig, cliUrl>>
resolverVars == <<custom_url, cliConsulted, dialogRes, retries, customProbes,
                  local_port, localProbe, password, path>>
hostVars == <<platform, job, jobError, jobMembers, crashed>>
pureVars == <<hostname, normalized, renormalized, probeCond, probeResult,
              probeFails>>
lockVars == <<logLock, pending>>
pollVars == <<elapsed, pollProbes, probeCreds>>
procVars == <<spawned, procEnv, proc, killCalls>>
logVars == <<logs, history, snapLen>>
readyVars == <<status, published, waiting, observed>>

(* --------------------------- result values ---------------------------- *)

\* Ok(ServerReadyData { url, password })
OkReady(url, pw) == [ok |-> TRUE, url |-> url, password |-> pw, err |-> <<>>]
\* Err(String)
ErrResult(msg) == [ok |-> FALSE, url |-> <<>>, password |-> None, err |-> msg]

\* ensure_server_ready's map_err on a cancelled receiver.
STATUS_ERROR == ErrResult(<<"Failed to get server status">>)

\* The oneshot channel: nothing sent, a value sent, or the sender dropped.
ChanEmpty == [state |-> "empty", value |-> None]
ChanSent(v) == [state |-> "sent", value |-> Some(v)]
ChanDropped == [state |-> "dropped", value |-> None]

LocalUrl == FormatUrl(LOOPBACK_V4, local_port)

(* ------------------------------ log ring ------------------------------ *)

Tag(stream) == IF stream = "stdout" THEN "[STDOUT] " ELSE "[STDERR] "

\* format!("[STDOUT] {}", line) / format!("[STDERR] {}", line)
Entry(stream, line) == <<Tag(stream), line>>

\* Variant: the eviction loop pops the newest entry, pop_back.
RECURSIVE EvictNewest(_)
EvictNewest(q) ==
    IF Len(q) > MAX_LOG_ENTRIES THEN EvictNewest(SubSeq(q, 1, Len(q) - 1)) ELSE q

\* while logs.len() > MAX_LOG_ENTRIES { logs.pop_front(); }
RECURSIVE Evict(_)
Evict(q) == IF Len(q) > MAX_LOG_ENTRIES THEN Evict(Tail(q)) ELSE q

\* Variant: the push without the eviction loop.
PushLogNoEvict(q, entry) == Append(q, entry)

\* logs.push_back(entry), then the eviction loop, under one hold of the lock.
PushLog(q, entry) == Evict(Append(q, entry))

\* Variant: a lock that never makes its caller wait.
LockFreeAlways(l) == TRUE

\* Mutex::lock returns once no other holder has the lock.
LockFree(l) == l = "free"

\* The entry the ingestion task is appending and how far it is: "push" before
\* push_back, "evict" in the eviction loop.
Appending(entry, stage) == <<entry, stage>>

\* logs.iter().cloned().collect::<Vec<_>>().join("")
RECURSIVE Join(_)
Join(q) ==
    IF q = <<>> THEN <<>>
    ELSE IF Len(q) = 1 THEN q[1]
    ELSE Join(SubSeq(q, 1, Len(q) \div 2))
            \o Join(SubSeq(q, Len(q) \div 2 + 1, Len(q)))

GetLogs(q) == Join(q)

\* format!("Failed to spawn OpenCode Server. Logs:\n{}", logs)
SpawnError(text) == <<"Failed to spawn OpenCode Server. Logs:\n">> \o text

(* --------------------------- pure decisions --------------------------- *)

\* Variant: the loop gives up as soon as the maximum wait is reached.
TimedOutWhenReached(e) == e * TickSecs >= MAX_WAIT_SECS

\* timestamp.elapsed() > Duration::from_secs(30)
TimedOut(e) == e * TickSecs > MAX_WAIT_SECS

\* Variant: any custom button counts as Retry.
IsRetryAnyCustom(r) == Len(r) = 2 /\ r[1] = "Custom"

\* MessageDialogResult::Custom(name) if name == RETRY
IsRetry(r) == Len(r) = 2 /\ r[1] = "Custom" /\ r[2] = RETRY

\* Variant: Retry shows the dialog again without probing.
AfterRetrySkipsProbe == "dialog"

\* `continue` of the custom-URL loop: back to the probe at the loop head.
AfterRetry == "probe_custom"

\* Variant: the spawn does not depend on the probe.
SpawnAlways(healthy) == TRUE

\* if !check_server_health(&local_url, None).await { spawn } else { adopt }
SpawnNeeded(healthy) == ~healthy

\* Variant: a failed polling probe spawns again.
AfterFailedPollRespawn == "spawn"

\* A failed polling probe falls through to the head of the polling loop.
AfterFailedPoll == "poll"

\* Variant: the expired timeout does not end the polling loop.
AfterTimeoutKeepsPolling == "poll"

\* return Err(..) out of the polling loop: run goes on to send the result.
AfterTimeout == "send"

\* Variant: the spawn branch publishes no password.
SpawnReadyNoPassword(url, pw) == OkReady(url, None)

\* ServerReadyData of the spawn branch: password: Some(password)
SpawnReady(url, pw) == OkReady(url, Some(pw))

\* Every result any ensure_server_ready call has returned.
AllObserved == UNION {observed[c] : c \in Consumers}

\* Variant: a receiver that a dropped sender never wakes.
ResolvedBySendOnly(st) == st.state = "sent"

\* A Shared<oneshot::Receiver> completes once a value is sent or the sender dropped.
Resolved(st) == st.state # "empty"

\* Variant: a receiver that is not shared, so only its first await gets the value.
EnsureServerReadyUnshared(st) ==
    IF st.state = "sent" /\ AllObserved = {} THEN st.value[1] ELSE STATUS_ERROR

\* state.status.clone().await.map_err(..)? on the Shared receiver.
EnsureServerReadyResult(st) ==
    IF st.state = "sent" THEN st.value[1] ELSE STATUS_ERROR

(* ---------------------- normalize_hostname_for_url -------------------- *)

\* hostname.contains(':')
Contains(h, c) == \E i \in 1..Len(h) : h[i] = c

\* hostname.starts_with('[')
StartsWith(h, c) == Len(h) > 0 /\ h[1] = c

\* format!("[{}]", hostname)
Bracketed(h) == <<"[">> \o h \o <<"]">>

\* Variant: the IPv6 wildcard becomes the bare loopback address.
NormalizeHostnameBareLoopback(h) ==
    IF h = WILDCARD_V4 THEN LOOPBACK_V4
    ELSE IF h = WILDCARD_V6 THEN LOOPBACK_V6
    ELSE IF Contains(h, ":") /\ ~StartsWith(h, "[") THEN Bracketed(h)
    ELSE h

\* Variant: every hostname with a colon is bracketed, bracketed or not.
NormalizeHostnameBracketsAll(h) ==
    IF h = WILDCARD_V4 THEN LOOPBACK_V4
    ELSE IF h = WILDCARD_V6 THEN BRACKETED_LOOPBACK_V6
    ELSE IF Contains(h, ":") THEN Bracketed(h)
    ELSE h

\* normalize_hostname_for_url, the hostname as the String it returns.
NormalizeHostnameForUrl(h) ==
    IF h = WILDCARD_V4 THEN LOOPBACK_V4
    ELSE IF h = WILDCARD_V6 THEN BRACKETED_LOOPBACK_V6
    ELSE IF Contains(h, ":") /\ ~StartsWith(h, "[") THEN Bracketed(h)
    ELSE h

\* The hostnames a configuration is drawn from: the named ones and every string
\* of up to MaxHostLen characters over HostAlphabet.
HostAlphabet == {":", "[", "]", "1", "a", "."}
Hostnames ==
    {WILDCARD_V4, LOOPBACK_V4, WILDCARD_V6, LOOPBACK_V6, BRACKETED_LOOPBACK_V6,
     EXAMPLE_COM}
    \cup UNION {[1..n -> HostAlphabet] : n \in 0..MaxHostLen}

(* ---------------------- get_server_url_from_config -------------------- *)

\* cli::ServerConfig and cli::Config.
ServerConfig(h, p) == [hostname |-> h, port |-> p]
Config(server) == [server |-> server]

\* Variant: a configuration without a port yields the URL of the default port.
GetServerUrlDefaultPort(config) ==
    IF config.server = None THEN None
    ELSE Some(FormatUrl(
            IF config.server[1].hostname = None THEN LOOPBACK_V4
            ELSE NormalizeHostnameForUrl(config.server[1].hostname[1]),
            IF config.server[1].port = None THEN 4096
            ELSE config.server[1].port[1]))

\* get_server_url_from_config: `?` on the server section and on its port, the
\* normalized hostname or "127.0.0.1", then the formatted URL.
GetServerUrlFromConfig(config) ==
    IF config.server = None THEN None
    ELSE IF config.server[1].port = None THEN None
    ELSE Some(FormatUrl(
            IF config.server[1].hostname = None THEN LOOPBACK_V4
            ELSE NormalizeHostnameForUrl(config.server[1].hostname[1]),
            config.server[1].port[1]))

\* run: let Some(cli_config) = cli::get_config(&app).await, then
\* get_server_url_from_config(&cli_config).
CliCustomUrl(cfg) ==
    IF cfg = None THEN None ELSE GetServerUrlFromConfig(cfg[1])

\* What cli::get_config returns in the runs of the supervisor: nothing, or a
\* server section with a port and no hostname.
CliConfigs == {None, Some(Config(Some(ServerConfig(None, Some(4096)))))}
\* What get_config + get_server_url_from_config may yield.
CliUrls == {CliCustomUrl(cfg) : cfg \in CliConfigs}

\* The configurations a CLI may report: none, one without a server section,
\* and server sections with and without a hostname and a port.
ConfigHostnames == {WILDCARD_V4, WILDCARD_V6, LOOPBACK_V6, EXAMPLE_COM}
ConfigPorts == {4096, 8080}
ServerConfigs ==
    {ServerConfig(h, p) :
        h \in {None} \cup {Some(x) : x \in ConfigHostnames},
        p \in {None} \cup {Some(x) : x \in ConfigPorts}}
AllCliConfigs ==
    {None, Some(Config(None))} \cup {Some(Config(Some(sc))) : sc \in ServerConfigs}

(* -------------------------- check_server_health ------------------------ *)

\* What the URL string is to Url::parse, Url::join and url_is_localhost.
UrlKinds == {"malformed", "not_a_base", "loopback", "remote"}

\* What sending the request ends in: a response with a status code, a refused
\* connection, or no answer within the client's 3 seconds.
Outcome(kind, code) == [kind |-> kind, code |-> code]
StatusCodes == {200, 204, 401, 404, 500}
Outcomes ==
    {Outcome("response", code) : code \in StatusCodes}
    \cup {Outcome("refused", 0), Outcome("timeout", 0)}

\* The conditions of one call: the URL, whether the client builds, the system
\* proxy, and what the server does with a request that reaches it.
ProbeConds ==
    [url : UrlKinds, build : BOOLEAN, proxy : {"none", "broken"},
     server : Outcomes]

\* url_is_localhost: the host is localhost or a loopback address.
UrlIsLocalhost(kind) == kind = "loopback"

\* StatusCode::is_success
IsSuccess(code) == code >= 200 /\ code <= 299

\* What builder.send() yields: loopback URLs bypass the proxy (no_proxy), other
\* requests go through it.
SendOutcome(w) ==
    IF ~UrlIsLocalhost(w.url) /\ w.proxy = "broken"
      THEN Outcome("refused", 0)
      ELSE w.server

\* Variant: a probe that remembers an earlier failure.
CheckServerHealthCached(w, fails) ==
    IF fails > 0 THEN FALSE
    ELSE IF w.url = "malformed" THEN FALSE
    ELSE IF ~w.build THEN FALSE
    ELSE IF w.url = "not_a_base" THEN FALSE
    ELSE SendOutcome(w).kind = "response" /\ IsSuccess(SendOutcome(w).code)

\* check_server_health under conditions w; `fails`, the number of earlier false
\* results, is not something the function has.
CheckServerHealth(w, fails) ==
    IF w.url = "malformed" THEN FALSE
    ELSE IF ~w.build THEN FALSE
    ELSE IF w.url = "not_a_base" THEN FALSE
    ELSE SendOutcome(w).kind = "response" /\ IsSuccess(SendOutcome(w).code)

\* The application process is running.
Alive == ~appExited /\ ~crashed

\* custom_url.is_none() && let Some(cli_config) = cli::get_config(&app).await
ConsultCli(stored) == stored = None

\* Variant: the CLI configuration wins over the stored URL.
ChooseCliFirst(stored, cli) == IF cli # None THEN cli ELSE stored

\* run: the stored URL when there is one, else what the CLI configuration yields.
ChooseCustomUrl(stored, cli) == IF stored # None THEN stored ELSE cli

\* Variant: the custom branch publishes the fixed user name as a password.
CustomReadyWithPassword(url) == OkReady(url, Some("opencode"))

\* ServerReadyData of the custom branch: password: None
CustomReady(url) == OkReady(url, None)

\* Variant: the Ok arm sends the result first.
AfterSpawnOkSendsFirst == "send"

\* run: the Ok arm starts with job_state.assign_pid under cfg(windows).
AfterSpawnOk == IF platform = "windows" THEN "assign" ELSE "resolved"

\* Variant: a failed assignment ends the startup task.
AfterAssignFailurePanics == "panicked"

\* JobObjectState::assign_pid only records a failure; run goes on to set_child.
AfterAssignFailure == "resolved"

(* ------------------------------- Init --------------------------------- *)

\* What run's setup leaves behind, whatever the build.
StateInit ==
    /\ pc = "discover"
    /\ custom_url = None
    /\ dialogRes = None
    /\ retries = 0
    /\ customProbes = 0
    /\ local_port = 0
    /\ localProbe = ""
    /\ password = None
    /\ held = None
    /\ res = None
    /\ elapsed = 0
    /\ pollProbes = 0
    /\ probeCreds = {}
    /\ spawned = 0
    /\ procEnv = None
    /\ proc = "none"
    /\ killCalls = 0
    /\ child = None
    /\ status = ChanEmpty
    /\ published = 0
    /\ waiting = {}
    /\ observed = [c \in Consumers |-> {}]
    /\ logs = <<>>
    /\ history = <<>>
    /\ snapLen = -1
    /\ path = ""
    /\ appExited = FALSE
    /\ cliConsulted = FALSE
    /\ jobMembers = {}
    /\ crashed = FALSE
    /\ logLock = "free"
    /\ pending = None

\* What run's setup leaves behind, with what the settings store holds and what
\* the CLI reports and yields.
AppInit ==
    /\ storedUrl \in StoredUrls
    /\ cliConfig \in CliConfigs
    /\ cliUrl = CliCustomUrl(cliConfig)
    /\ StateInit

\* Nothing has been normalized or probed on its own.
PureIdle ==
    /\ hostname = <<>>
    /\ normalized = None
    /\ renormalized = None
    /\ probeCond = None
    /\ probeResult = None
    /\ probeFails = 0

\* A build without cfg(windows): there is no JobObjectState.
OtherBuild == platform = "other" /\ job = "absent" /\ jobError = None

\* JobObjectState::new() of a cfg(windows) build: the job object is created, or
\* the failure is recorded.
WindowsBuild ==
    /\ platform = "windows"
    /\ \/ job = "open" /\ jobError = None
       \/ job = "none" /\ jobError = Some(<<"Failed to create job object: ">>)

Init == AppInit /\ OtherBuild /\ PureIdle

(* --------------------------- startup task ----------------------------- *)

\* run: the stored URL first, the CLI configuration only without one.
Discover ==
    /\ Alive /\ pc = "discover"
    /\ cliConsulted' = ConsultCli(storedUrl)
    /\ custom_url' = ChooseCustomUrl(storedUrl, cliUrl)
    /\ pc' = IF custom_url' # None THEN "probe_custom" ELSE "local"
    /\ UNCHANGED <<inputVars, lockVars, hostVars, pureVars, dialogRes, retries, customProbes, local_port,
                   localProbe, password, path, held, res, pollVars, procVars,
                   child, readyVars, logVars, appExited>>

\* setup_server_connection: check_server_health(&url, None) in the custom loop.
ProbeCustom(healthy) ==
    /\ Alive /\ pc = "probe_custom"
    /\ IF healthy
         THEN /\ res' = Some(CustomReady(custom_url[1]))
              /\ path' = "custom"
              /\ pc' = "resolved"
              /\ UNCHANGED customProbes
         ELSE /\ customProbes' = customProbes + 1
              /\ pc' = "dialog"
              /\ UNCHANGED <<res, path>>
    /\ UNCHANGED <<inputVars, lockVars, hostVars, pureVars, custom_url,
                   cliConsulted, dialogRes, retries, local_port,
                   localProbe, password, held, pollVars, procVars, child,
                   readyVars, logVars, appExited>>

\* setup_server_connection: the blocking dialog returns the operator's choice.
ShowDialog(r) ==
    /\ Alive /\ pc = "dialog"
    /\ IsRetry(r) => retries < MaxRetries
    /\ dialogRes' = Some(r)
    /\ pc' = "match"
    /\ UNCHANGED <<inputVars, lockVars, hostVars, pureVars, custom_url,
                   cliConsulted, retries, customProbes, local_port,
                   localProbe, password, path, held, res, pollVars, procVars,
                   child, readyVars, logVars, appExited>>

\* setup_server_connection: match res { Custom(name) if name == RETRY => continue,
\* _ => break }
MatchDialog ==
    /\ Alive /\ pc = "match"
    /\ IF IsRetry(dialogRes[1])
         THEN /\ retries' = retries + 1
              /\ pc' = AfterRetry
         ELSE /\ pc' = "local"
              /\ UNCHANGED retries
    /\ dialogRes' = None
    /\ UNCHANGED <<inputVars, lockVars, hostVars, pureVars, custom_url,
                   cliConsulted, customProbes, local_port, localProbe,
                   password, path, held, res, pollVars, procVars, child,
                   readyVars, logVars, appExited>>

\* setup_server_connection: the port, the local URL and the probe before a spawn;
\* the password is generated in the spawn branch only.
LocalCheck(port, healthy, pw) ==
    /\ Alive /\ pc = "local"
    /\ local_port' = port
    /\ localProbe' = IF healthy THEN "healthy" ELSE "unhealthy"
    /\ IF SpawnNeeded(healthy)
         THEN /\ password' = Some(pw)
              /\ pc' = "spawn"
              /\ UNCHANGED <<res, path>>
         ELSE /\ res' = Some(OkReady(LocalUrl', None))
              /\ path' = "adopt"
              /\ pc' = "resolved"
              /\ UNCHANGED password
    /\ UNCHANGED <<inputVars, lockVars, hostVars, pureVars, custom_url,
                   cliConsulted, dialogRes, retries, customProbes, held,
                   pollVars, procVars, child, readyVars, logVars, appExited>>

\* spawn_sidecar: the process is started with the password in its environment;
\* a failed spawn panics the task, which drops the sender.
SpawnSidecar(ok) ==
    /\ Alive /\ pc = "spawn"
    /\ IF ok
         THEN /\ spawned' = spawned + 1
              /\ proc' = "running"
              /\ procEnv' = password
              /\ held' = Some(Pid)
              /\ elapsed' = 0
              /\ pc' = "poll"
              /\ UNCHANGED status
         ELSE /\ pc' = "panicked"
              /\ status' = ChanDropped
              /\ UNCHANGED <<spawned, proc, procEnv, held, elapsed>>
    /\ UNCHANGED <<inputVars, lockVars, hostVars, pureVars, resolverVars, res, pollProbes, probeCreds, killCalls,
                   child, published, waiting, observed, logVars, appExited>>

\* spawn_local_server: one sleep and one probe of the polling loop.  The sleep
\* makes every iteration take time; d is its duration rounded up to quanta.
PollProbe(d, healthy) ==
    /\ Alive /\ pc = "poll"
    /\ ~TimedOut(elapsed)
    /\ elapsed' = elapsed + d
    /\ probeCreds' = probeCreds \cup {password}
    /\ IF healthy
         THEN /\ res' = Some(SpawnReady(LocalUrl, password[1]))
              /\ path' = "spawn"
              /\ pc' = AfterSpawnOk
              /\ UNCHANGED pollProbes
         ELSE /\ pollProbes' = pollProbes + 1
              /\ pc' = AfterFailedPoll
              /\ UNCHANGED <<res, path>>
    /\ UNCHANGED <<inputVars, lockVars, hostVars, pureVars, custom_url,
                   cliConsulted, dialogRes, retries, customProbes,
                   local_port, localProbe, password, held, procVars, child,
                   readyVars, logVars, appExited>>

\* spawn_local_server: the timeout branch; the child handle is dropped with the
\* function's locals.
PollTimeout ==
    /\ Alive /\ pc = "poll"
    /\ TimedOut(elapsed)
    /\ res' = Some(ErrResult(SpawnError(GetLogs(logs))))
    /\ snapLen' = Len(history)
    /\ held' = None
    /\ path' = "timeout"
    /\ pc' = AfterTimeout
    /\ UNCHANGED <<inputVars, lockVars, hostVars, pureVars, custom_url,
                   cliConsulted, dialogRes, retries, customProbes,
                   local_port, localProbe, password, pollVars, procVars, child,
                   readyVars, logs, history, appExited>>

\* run: app.state::<ServerState>().set_child(child) on Ok.
SetChild ==
    /\ Alive /\ pc = "resolved"
    /\ child' = held
    /\ held' = None
    /\ pc' = "send"
    /\ UNCHANGED <<inputVars, lockVars, hostVars, pureVars, resolverVars, res, pollVars, procVars, readyVars,
                   logVars, appExited>>

\* run: let _ = tx.send(res)
SendStatus ==
    /\ Alive /\ pc = "send"
    /\ status' = ChanSent(res[1])
    /\ published' = published + 1
    /\ pc' = "done"
    /\ UNCHANGED <<inputVars, lockVars, hostVars, pureVars, resolverVars, held, res, pollVars, procVars, child,
                   waiting, observed, logVars, appExited>>

(* ----------------------------- consumers ------------------------------ *)

\* ensure_server_ready: the call starts awaiting the shared receiver.
EnsureCall(c) ==
    /\ Alive /\ c \notin waiting
    /\ waiting' = waiting \cup {c}
    /\ UNCHANGED <<inputVars, lockVars, hostVars, pureVars, pc, resolverVars, held, res, pollVars, procVars,
                   child, status, published, observed, logVars, appExited>>

\* ensure_server_ready: the await completes once the channel is resolved.
EnsureReturn(c) ==
    /\ Alive /\ c \in waiting
    /\ Resolved(status)
    /\ observed' = [observed EXCEPT ![c] = @ \cup {EnsureServerReadyResult(status)}]
    /\ waiting' = waiting \ {c}
    /\ UNCHANGED <<inputVars, lockVars, hostVars, pureVars, pc, resolverVars, held, res, pollVars, procVars,
                   child, status, published, logVars, appExited>>

(* ------------------------------ shutdown ------------------------------ *)

\* Variant: the child is killed through a clone of the handle and stays tracked.
KillBodyKeepsChild ==
    IF child = None
      THEN UNCHANGED <<child, proc, killCalls>>
      ELSE /\ child' = child
           /\ killCalls' = killCalls + 1
           /\ proc' = IF proc = "running" THEN "killed" ELSE proc

\* kill_sidecar: take() the tracked child and kill it, or do nothing.
KillBody ==
    IF child = None
      THEN UNCHANGED <<child, proc, killCalls>>
      ELSE /\ child' = None
           /\ killCalls' = killCalls + 1
           /\ proc' = IF proc = "running" THEN "killed" ELSE proc

\* The kill_sidecar command invoked by the frontend.  Without a tracked child
\* the command changes nothing ("Server state missing"), which is a stuttering
\* step.
KillSidecar ==
    /\ Alive
    /\ child # None
    /\ KillBody
    /\ UNCHANGED <<inputVars, lockVars, hostVars, pureVars, pc, resolverVars, held, res, pollVars, spawned,
                   procEnv, readyVars, logVars, appExited>>

\* RunEvent::Exit: kill_sidecar, after which the application is gone.
Exit ==
    /\ Alive
    /\ KillBody
    /\ appExited' = TRUE
    /\ UNCHANGED <<inputVars, lockVars, hostVars, pureVars, pc, resolverVars, held, res, pollVars, spawned,
                   procEnv, readyVars, logVars>>

(* --------------------------- log ingestion ---------------------------- *)

\* The task spawn_sidecar starts: one CommandEvent::Stdout/Stderr received.
Ingest(stream, line) ==
    /\ Alive /\ spawned > 0
    /\ logs' = PushLog(logs, Entry(stream, line))
    /\ history' = Append(history, Entry(stream, line))
    /\ UNCHANGED <<inputVars, lockVars, hostVars, pureVars, pc, resolverVars, held, res, pollVars, procVars,
                   child, readyVars, snapLen, appExited>>

(* ------------------- the log lock, one hold at a time ------------------ *)

\* The ingestion task receives one CommandEvent::Stdout/Stderr and acquires the
\* log lock: log_state_clone.0.lock().
IngestLock(stream, line) ==
    /\ Alive /\ spawned > 0
    /\ pending = None
    /\ LockFree(logLock)
    /\ logLock' = "ingest"
    /\ pending' = Appending(Entry(stream, line), "push")
    /\ UNCHANGED <<inputVars, hostVars, pureVars, pc, resolverVars, held, res,
                   pollVars, procVars, child, readyVars, logVars, appExited>>

\* logs.push_back(entry), the lock held.
IngestPush ==
    /\ Alive
    /\ pending # None /\ pending[2] = "push"
    /\ logs' = Append(logs, pending[1])
    /\ history' = Append(history, pending[1])
    /\ pending' = Appending(pending[1], "evict")
    /\ UNCHANGED <<inputVars, logLock, hostVars, pureVars, pc, resolverVars,
                   held, res, pollVars, procVars, child, readyVars, snapLen,
                   appExited>>

\* One turn of the eviction loop: logs.pop_front() while the ring is too long,
\* else the end of the block, where the guard is dropped.
IngestEvict ==
    /\ Alive
    /\ pending # None /\ pending[2] = "evict"
    /\ IF Len(logs) > MAX_LOG_ENTRIES
         THEN /\ logs' = Tail(logs)
              /\ UNCHANGED <<logLock, pending>>
         ELSE /\ logLock' = "free"
              /\ pending' = None
              /\ UNCHANGED logs
    /\ UNCHANGED <<inputVars, hostVars, pureVars, pc, resolverVars, held, res,
                   pollVars, procVars, child, readyVars, history, snapLen,
                   appExited>>

\* spawn_local_server: the timeout test succeeds and get_logs acquires the log
\* lock.
GetLogsLock ==
    /\ Alive /\ pc = "poll"
    /\ TimedOut(elapsed)
    /\ LockFree(logLock)
    /\ logLock' = "get_logs"
    /\ pc' = "snapshot"
    /\ UNCHANGED <<inputVars, pending, hostVars, pureVars, resolverVars, held,
                   res, pollVars, procVars, child, readyVars, logVars,
                   appExited>>

\* get_logs joins the ring and returns, which drops the guard; the loop breaks
\* with the error.
GetLogsJoin ==
    /\ Alive /\ pc = "snapshot"
    /\ res' = Some(ErrResult(SpawnError(GetLogs(logs))))
    /\ snapLen' = Len(history)
    /\ held' = None
    /\ path' = "timeout"
    /\ logLock' = "free"
    /\ pc' = AfterTimeout
    /\ UNCHANGED <<inputVars, pending, hostVars, pureVars, custom_url,
                   cliConsulted, dialogRes, retries, customProbes, local_port,
                   localProbe, password, pollVars, procVars, child, readyVars,
                   logs, history, appExited>>

(* ------------------------- crash-safe registrar ------------------------ *)

\* run, cfg(windows): job_state.assign_pid(child.pid()).  Without a job object
\* the call does nothing; a failed assignment is recorded in `error`.
AssignPid(ok) ==
    /\ Alive /\ pc = "assign"
    /\ IF job = "open"
         THEN IF ok
                THEN /\ jobMembers' = jobMembers \cup {held[1]}
                     /\ UNCHANGED jobError
                     /\ pc' = "resolved"
                ELSE /\ jobError' =
                          Some(<<"Failed to assign process to job object: ">>)
                     /\ UNCHANGED jobMembers
                     /\ pc' = AfterAssignFailure
         ELSE /\ ok
              /\ UNCHANGED <<jobError, jobMembers>>
              /\ pc' = "resolved"
    /\ UNCHANGED <<inputVars, lockVars, platform, job, crashed, pureVars, resolverVars,
                   held, res, pollVars, procVars, child, readyVars, logVars,
                   appExited>>

\* The application process ends without RunEvent::Exit: a crash or a forced kill.
Crash ==
    /\ Alive
    /\ crashed' = TRUE
    /\ UNCHANGED <<inputVars, lockVars, platform, job, jobError, jobMembers, pureVars, pc,
                   resolverVars, held, res, pollVars, procVars, child,
                   readyVars, logVars, appExited>>

\* JobObject with JOB_OBJECT_LIMIT_KILL_ON_JOB_CLOSE: once the application is
\* gone its handle is closed and the system terminates the job's processes.
JobClosed ==
    /\ ~Alive
    /\ job = "open" /\ Pid \in jobMembers
    /\ proc = "running"
    /\ proc' = "job_killed"
    /\ UNCHANGED <<inputVars, lockVars, hostVars, pureVars, pc, resolverVars, held, res,
                   pollVars, spawned, procEnv, killCalls, child, readyVars,
                   logVars, appExited>>

\* The server process ends by itself while the application holds its handle.
ChildExits ==
    /\ Alive
    /\ proc = "running"
    /\ proc' = "exited"
    /\ UNCHANGED <<inputVars, lockVars, hostVars, pureVars, pc, resolverVars, held, res,
                   pollVars, spawned, procEnv, killCalls, child, readyVars,
                   logVars, appExited>>

(* --------------------------- pure functions --------------------------- *)

\* One call of normalize_hostname_for_url on the configured hostname.
Normalize ==
    /\ normalized = None
    /\ normalized' = Some(NormalizeHostnameForUrl(hostname))
    /\ UNCHANGED <<inputVars, lockVars, hostVars, hostname, renormalized,
                   probeCond, probeResult, probeFails, pc, resolverVars, held, res, pollVars, procVars,
                   child, readyVars, logVars, appExited>>

\* A second call of normalize_hostname_for_url, on what the first returned.
NormalizeAgain ==
    /\ normalized # None /\ renormalized = None
    /\ renormalized' = Some(NormalizeHostnameForUrl(normalized[1]))
    /\ UNCHANGED <<inputVars, lockVars, hostVars, hostname, normalized,
                   probeCond, probeResult, probeFails, pc, resolverVars, held,
                   res, pollVars, procVars, child, readyVars, logVars,
                   appExited>>

\* One call of check_server_health under conditions w.
Probe(w) ==
    /\ CheckServerHealth(w, probeFails) \/ probeFails < MaxProbeFails
    /\ probeCond' = Some(w)
    /\ probeResult' = Some(CheckServerHealth(w, probeFails))
    /\ probeFails' =
          IF CheckServerHealth(w, probeFails) THEN probeFails ELSE probeFails + 1
    /\ UNCHANGED <<inputVars, lockVars, hostVars, hostname, normalized,
                   renormalized, pc, resolverVars,
                   held, res, pollVars, procVars, child, readyVars, logVars,
                   appExited>>

(* --------------------------- specification ---------------------------- *)

Next ==
    \/ Discover
    \/ \E healthy \in BOOLEAN : ProbeCustom(healthy)
    \/ \E r \in DialogResults : ShowDialog(r)
    \/ MatchDialog
    \/ \E port \in Ports, healthy \in BOOLEAN, pw \in Passwords :
          LocalCheck(port, healthy, pw)
    \/ \E ok \in BOOLEAN : SpawnSidecar(ok)
    \/ \E d \in 1..MaxStep, healthy \in BOOLEAN : PollProbe(d, healthy)
    \/ PollTimeout
    \/ SetChild
    \/ SendStatus
    \/ \E c \in Consumers : EnsureCall(c)
    \/ \E c \in Consumers : EnsureReturn(c)
    \/ KillSidecar
    \/ Exit
    \/ \E stream \in Streams, line \in Lines :
          Len(history) < MaxLines /\ Ingest(stream, line)

Spec == Init /\ [][Next]_vars

\* The runtime polls a woken task: a call of ensure_server_ready whose receiver
\* has completed does return.
FairSpec == Spec /\ \A c \in Consumers : WF_vars(EnsureReturn(c))

(* ------------------- specification with a long output ----------------- *)

\* The n-th line of a child that writes numbered lines, every third to stderr.
ScriptStream(n) == IF n % 3 = 0 THEN "stderr" ELSE "stdout"
ScriptLine(n) == ToString(n)

LogsInit == Init /\ storedUrl = None /\ cliUrl = None

LogsNext ==
    \/ Discover
    \/ \E healthy \in BOOLEAN : LocalCheck(4096, healthy, "uuid-a")
    \/ \E ok \in BOOLEAN : SpawnSidecar(ok)
    \/ \E d \in 1..MaxStep, healthy \in BOOLEAN : PollProbe(d, healthy)
    \/ PollTimeout
    \/ SetChild
    \/ SendStatus
    \/ /\ Len(history) < MaxBurst
       /\ Ingest(ScriptStream(Len(history) + 1), ScriptLine(Len(history) + 1))

\* The local-spawn path of a run without a custom URL, on one port and with one
\* password, whose child writes up to MaxBurst lines.
SpecLogs == LogsInit /\ [][LogsNext]_vars

(* ------------------ specification of the log lock -------------------- *)

LockNext ==
    \/ Discover
    \/ LocalCheck(4096, FALSE, "uuid-a")
    \/ SpawnSidecar(TRUE)
    \/ PollProbe(MaxStep, FALSE)
    \/ GetLogsLock
    \/ GetLogsJoin
    \/ SendStatus
    \/ /\ Len(history) < MaxBurst
       /\ IngestLock(ScriptStream(Len(history) + 1), ScriptLine(Len(history) + 1))
    \/ IngestPush
    \/ IngestEvict

\* A run whose probes all fail, each iteration of the polling loop taking
\* MaxStep quanta, with the ingestion task and get_logs taking the log lock one
\* step at a time, and a child that writes up to MaxBurst lines.
SpecLock == LogsInit /\ [][LockNext]_vars

(* ------------- specification of the lifecycle of the child ------------ *)

LifeInit ==
    /\ AppInit /\ storedUrl = None /\ cliUrl = None
    /\ OtherBuild \/ WindowsBuild
    /\ PureIdle

LifeNext ==
    \/ Discover
    \/ \E healthy \in BOOLEAN : LocalCheck(4096, healthy, "uuid-a")
    \/ \E ok \in BOOLEAN : SpawnSidecar(ok)
    \/ \E d \in 1..MaxStep, healthy \in BOOLEAN : PollProbe(d, healthy)
    \/ PollTimeout
    \/ \E ok \in BOOLEAN : AssignPid(ok)
    \/ SetChild
    \/ SendStatus
    \/ \E c \in Consumers : EnsureCall(c)
    \/ \E c \in Consumers : EnsureReturn(c)
    \/ KillSidecar
    \/ Exit
    \/ Crash
    \/ ChildExits
    \/ JobClosed

\* The local-spawn path on either build, with a job object that was created or
\* not, a server process that may end by itself, and an application that may end
\* through Exit or without it.
SpecLife == LifeInit /\ [][LifeNext]_vars

(* ------------------ specifications of the pure functions -------------- *)

HostInit ==
    /\ AppInit /\ storedUrl = None /\ cliUrl = None
    /\ OtherBuild
    /\ hostname \in Hostnames
    /\ normalized = None
    /\ renormalized = None
    /\ probeCond = None /\ probeResult = None /\ probeFails = 0

HostNext == Normalize \/ NormalizeAgain

SpecHost == HostInit /\ [][HostNext]_vars

ProbeNext == \E w \in ProbeConds : Probe(w)

ProbeInit == Init /\ storedUrl = None /\ cliUrl = None

SpecProbe == ProbeInit /\ [][ProbeNext]_vars

(* --------------- specification of the CLI configuration -------------- *)

ConfigInit ==
    /\ storedUrl \in StoredUrls
    /\ cliConfig \in AllCliConfigs
    /\ cliUrl = CliCustomUrl(cliConfig)
    /\ StateInit /\ OtherBuild /\ PureIdle

ConfigNext ==
    \/ Discover
    \/ \E healthy \in BOOLEAN : ProbeCustom(healthy)
    \/ \E r \in DialogResults : ShowDialog(r)
    \/ MatchDialog
    \/ \E healthy \in BOOLEAN : LocalCheck(4096, healthy, "uuid-a")

\* Discovery and the resolver up to the probe before a spawn, for every
\* configuration of AllCliConfigs.
SpecConfig == ConfigInit /\ [][ConfigNext]_vars

(* ---------------- specification with a scheduled startup -------------- *)

\* One step of the task run spawns for startup.
StartupStep ==
    \/ Discover
    \/ \E healthy \in BOOLEAN : ProbeCustom(healthy)
    \/ \E r \in DialogResults : ShowDialog(r)
    \/ MatchDialog
    \/ \E port \in Ports, healthy \in BOOLEAN, pw \in Passwords :
          LocalCheck(port, healthy, pw)
    \/ \E ok \in BOOLEAN : SpawnSidecar(ok)
    \/ \E d \in 1..MaxStep, healthy \in BOOLEAN : PollProbe(d, healthy)
    \/ PollTimeout
    \/ SetChild
    \/ SendStatus

\* The startup task, the consumers and the shutdown, the output of the child
\* left aside.
LiveNext ==
    \/ StartupStep
    \/ \E c \in Consumers : EnsureCall(c)
    \/ \E c \in Consumers : EnsureReturn(c)
    \/ KillSidecar
    \/ Exit

\* The runtime keeps running the startup task, so that time advances and each
\* probe and each dialog returns, and it polls every woken consumer.
LiveSpec ==
    /\ Init /\ [][LiveNext]_vars
    /\ WF_vars(StartupStep)
    /\ \A c \in Consumers : WF_vars(EnsureReturn(c))

(* ------------------------------ claims -------------------------------- *)

\* The last n elements of a sequence.
LastN(q, n) == IF Len(q) <= n THEN q ELSE SubSeq(q, Len(q) - n + 1, Len(q))

\* The resolver has entered the local-spawn phase.
InLocalPhase ==
    \/ pc \in {"local", "spawn", "poll", "panicked"}
    \/ path \in {"adopt", "spawn", "timeout"}

\* C1: the readiness result is sent at most once, and every ensure_server_ready
\* call, whichever consumer makes it and whenever, returns the same result: the
\* one that was sent.
C1_SameResultForAll ==
    /\ published <= 1
    /\ Cardinality(AllObserved) <= 1
    /\ status.state = "sent" => AllObserved \subseteq {status.value[1]}

C1_Witness ==
    /\ published = 1
    /\ \A c \in Consumers : observed[c] # {}

\* C2 (as claimed): once Exit has been handled, a process spawned in this run has
\* been killed through its handle.
C2_KilledOnExit == (appExited /\ spawned > 0) => killCalls > 0

\* C3: when polling ended in a successful probe, the result is Ok with the local
\* URL and the generated password, which is the one the process was started with
\* and the only one the polling probes carried; that result is what is sent.
C3_SpawnPublishesCredential ==
    path = "spawn" =>
        /\ password # None
        /\ res = Some(OkReady(FormatUrl(LOOPBACK_V4, local_port), password))
        /\ procEnv = password
        /\ probeCreds = {password}
        /\ status.state = "sent" => status.value = res
        /\ pc = "done" => status.state = "sent"

C3_Witness ==
    /\ path = "spawn" /\ pc = "done"
    /\ pollProbes >= 1
    /\ status.value[1].password = Some("uuid-b")

\* C4: when polling timed out, the result is the failure whose payload is the
\* concatenation, in order, of the last MAX_LOG_ENTRIES of the entries pushed
\* before the snapshot was taken; that failure is what is sent.
C4_TimeoutPayload ==
    path = "timeout" =>
        /\ res = Some(ErrResult(
                   <<"Failed to spawn OpenCode Server. Logs:\n">>
                   \o Join(LastN(SubSeq(history, 1, snapLen), MAX_LOG_ENTRIES))))
        /\ status.state = "sent" => status.value = res
        /\ pc = "done" => status.state = "sent"

C4_Witness ==
    /\ path = "timeout" /\ pc = "done"
    /\ snapLen > MAX_LOG_ENTRIES

\* C5 (as claimed): after a polling timeout the spawned process is still the
\* tracked child, or has been killed through its handle.
C5_TrackedAfterTimeout ==
    path = "timeout" => (child = Some(Pid) \/ killCalls > 0)

\* C6: once the sender is dropped without a send, every call that has returned
\* returned the status failure, and every pending call, whether it began before
\* or after the drop, returns (unless the application exits first).
C6_DroppedSenderFails ==
    /\ [](status.state = "dropped" =>
             AllObserved \subseteq {ErrResult(<<"Failed to get server status">>)})
    /\ \A c \in Consumers :
          (status.state = "dropped" /\ c \in waiting)
              ~> (appExited \/ (c \notin waiting /\ observed[c] # {}))

C6_Witness ==
    /\ status.state = "dropped"
    /\ observed[1] # {}
    /\ 2 \in waiting

\* C7 (as claimed): entering the local-spawn phase after 3 Retry choices, exactly
\* 3 probes of the custom URL have failed.
C7_ThreeProbesForThreeRetries ==
    (pc = "local" /\ custom_url # None /\ retries = 3) => customProbes = 3

\* C7 (amended): in the local-spawn phase of a run with a custom URL, the failed
\* probes of the custom URL are one more than the Retry choices.
C7_ProbesAreRetriesPlusOne ==
    (custom_url # None /\ InLocalPhase) => customProbes = retries + 1

C7_Witness ==
    /\ pc = "local" /\ custom_url # None
    /\ retries = 3 /\ customProbes = 4

\* C8: when the probe before any spawn is healthy, nothing is spawned, no child
\* is held or tracked, and the result, which is what is sent, is Ok with the local
\* URL and no password.
C8_AdoptWithoutSpawn ==
    localProbe = "healthy" =>
        /\ spawned = 0 /\ proc = "none"
        /\ child = None /\ held = None
        /\ res = Some(OkReady(FormatUrl(LOOPBACK_V4, local_port), None))
        /\ status.state = "sent" => status.value = res

C8_Witness ==
    /\ localProbe = "healthy" /\ pc = "done"
    /\ status.state = "sent"

\* C9: at most one process is spawned in a run; a run resolved by a healthy
\* custom URL spawned none; a run resolved by a successful polling probe, after
\* any number of failed ones, spawned exactly one and carries a password.
C9_AtMostOneSpawn ==
    /\ spawned <= 1
    /\ path = "custom" => spawned = 0
    /\ path = "spawn" => (spawned = 1 /\ res[1].password # None)

C9_Witness ==
    /\ path = "spawn" /\ pc = "done"
    /\ pollProbes = 2 /\ spawned = 1
    /\ status.value[1].password # None

\* C10: the custom-URL phase needs a custom URL; its probe either resolves to the
\* custom URL without a password, with the local-spawn phase never entered, or
\* leads to the dialog; from the dialog's result only Custom("Retry") leads back
\* to the probe and anything else leads to the local-spawn phase, after which a
\* sent Ok result carries the local URL.
C10_CustomPhase ==
    [][
        /\ pc' \in {"probe_custom", "dialog", "match"} => custom_url' # None
        /\ (pc = "probe_custom" /\ pc' # pc) =>
              \/ /\ pc' = "resolved" /\ path' = "custom"
                 /\ res' = Some(OkReady(custom_url[1], None))
              \/ pc' = "dialog"
        /\ (pc = "dialog" /\ pc' # pc) => pc' = "match"
        /\ (pc = "match" /\ pc' # pc) =>
              pc' = IF dialogRes = Some(Custom(RETRY)) THEN "probe_custom"
                    ELSE "local"
        /\ path' = "custom" =>
              /\ ~InLocalPhase' /\ local_port' = 0 /\ spawned' = 0
              /\ status'.state = "sent" =>
                    status'.value = Some(OkReady(custom_url'[1], None))
        /\ (InLocalPhase' /\ status'.state = "sent" /\ status'.value[1].ok) =>
              status'.value[1].url = FormatUrl(LOOPBACK_V4, local_port')
    ]_vars

C10_Witness ==
    /\ custom_url # None /\ retries >= 1
    /\ InLocalPhase /\ pc = "done"
    /\ status.state = "sent" /\ status.value[1].ok

\* C11 (as claimed): on a Windows build whose job object was created, once the
\* application process has ended, through Exit or without it, a process this run
\* spawned is no longer running or is a member of the kill-on-close job object,
\* whose closing terminates it.
C11_TerminatedWhenAppEnds ==
    (platform = "windows" /\ job = "open" /\ ~Alive /\ spawned > 0
        /\ proc = "running") => Pid \in jobMembers

\* C12: after any appends, from stdout and stderr in any interleaving, the ring
\* holds exactly the last min(M, MAX_LOG_ENTRIES) of the M entries appended, in
\* the order they were appended, and its snapshot is their concatenation.
C12_RingIsLastEntries ==
    /\ Len(logs) =
          IF Len(history) < MAX_LOG_ENTRIES THEN Len(history)
          ELSE MAX_LOG_ENTRIES
    /\ \A i \in 1..Len(logs) : logs[i] = history[Len(history) - Len(logs) + i]
    /\ GetLogs(logs) = Join(LastN(history, MAX_LOG_ENTRIES))

C12_Witness ==
    /\ Len(history) > MAX_LOG_ENTRIES + 1
    /\ Len(logs) = MAX_LOG_ENTRIES
    /\ \E i, j \in 1..Len(logs) : logs[i][1] = "[STDOUT] " /\ logs[j][1] = "[STDERR] "

\* C13: a job object that could not be created, or an assignment that failed,
\* is recorded and changes nothing else: after a successful polling probe the
\* startup task goes on, the result is the Ok result of the spawn branch, the
\* child is tracked (until kill_sidecar takes it) once set_child has run, and
\* that result is what is sent.
C13_RegistrarFailureNotFatal ==
    /\ (platform = "windows" /\ job = "none") => jobError # None
    /\ (jobError # None /\ path = "spawn") =>
          /\ pc \in {"assign", "resolved", "send", "done"}
          /\ res = Some(SpawnReady(FormatUrl(LOOPBACK_V4, local_port),
                                   password[1]))
          /\ pc \in {"send", "done"} => (child = Some(Pid) \/ killCalls > 0)
          /\ status.state # "dropped"
          /\ status.state = "sent" => status.value = res
          /\ pc = "done" => status.state = "sent"

C13_Witness ==
    /\ job = "open" /\ jobError # None /\ jobMembers = {}
    /\ pc = "done" /\ child = Some(Pid)
    /\ status.state = "sent" /\ status.value[1].ok

\* C14: normalize_hostname_for_url maps 0.0.0.0 to 127.0.0.1 and :: to [::1],
\* brackets a hostname with a colon that does not start with a bracket (::1
\* becomes [::1]), and leaves every other hostname unchanged: one without a
\* colon (example.com) and one that starts with a bracket; it never returns
\* 0.0.0.0 or ::.
C14_NormalizeHostname ==
    normalized # None =>
        LET r == normalized[1] IN
        /\ hostname = WILDCARD_V4 => r = LOOPBACK_V4
        /\ hostname = WILDCARD_V6 => r = BRACKETED_LOOPBACK_V6
        /\ hostname = LOOPBACK_V6 => r = BRACKETED_LOOPBACK_V6
        /\ hostname = EXAMPLE_COM => r = EXAMPLE_COM
        /\ (~Contains(hostname, ":") /\ hostname # WILDCARD_V4) => r = hostname
        /\ StartsWith(hostname, "[") => r = hostname
        /\ (Contains(hostname, ":") /\ ~StartsWith(hostname, "[")
              /\ hostname # WILDCARD_V6) => r = Bracketed(hostname)
        /\ r \notin {WILDCARD_V4, WILDCARD_V6}

C14_Witness ==
    /\ hostname = BRACKETED_LOOPBACK_V6
    /\ normalized = Some(BRACKETED_LOOPBACK_V6)

\* C15: once discovery is over, a stored URL, when there is one, is the custom
\* URL and the CLI configuration was not consulted; without a stored URL the CLI
\* configuration was consulted and what it yields is the custom URL; and the
\* resolver is in the local-spawn phase without any custom probe exactly when
\* neither yields a URL.
C15_DiscoveryOrder ==
    pc # "discover" =>
        /\ storedUrl # None => (custom_url = storedUrl /\ ~cliConsulted)
        /\ storedUrl = None => (custom_url = cliUrl /\ cliConsulted)
        /\ (storedUrl = None /\ cliUrl = None) <=>
              (customProbes = 0 /\ InLocalPhase)

C15_Witness ==
    /\ storedUrl # None /\ cliUrl # None /\ storedUrl # cliUrl
    /\ pc = "dialog" /\ customProbes = 1
    /\ custom_url = storedUrl

\* A server that answers a request sent under conditions w with success.
HealthyAt(w) ==
    /\ w.url \in {"loopback", "remote"}
    /\ w.build
    /\ w.url = "remote" => w.proxy = "none"
    /\ w.server.kind = "response"
    /\ w.server.code \in 200..299

\* C16: every call of check_server_health returns a boolean, true exactly when
\* the server is healthy at the time of the call, whatever the earlier calls
\* returned: a malformed URL, a failed connection, a timeout and a non-success
\* status all give false.
C16_ProbeCollapsesAndForgets ==
    probeResult # None =>
        /\ probeResult[1] \in BOOLEAN
        /\ probeResult[1] <=> HealthyAt(probeCond[1])

C16_Witness ==
    /\ probeFails = MaxProbeFails
    /\ probeResult = Some(TRUE)
    /\ probeCond[1].url = "remote"

\* C17: across any number of kill_sidecar calls, from the command and from Exit,
\* the child is killed at most once and is no longer tracked afterwards; a call
\* that finds no child kills nothing; a process that has ended stays ended, a
\* kill of it included.
C17_KillIdempotent ==
    /\ [](killCalls <= 1 /\ (killCalls = 1 => child = None))
    /\ [][child = None =>
            (killCalls' = killCalls /\ (proc' = "killed" => proc = "killed"))]_vars
    /\ [][(proc # "none" /\ proc # "running") => proc' = proc]_vars

C17_Witness ==
    /\ appExited
    /\ proc = "exited"
    /\ killCalls = 1 /\ child = None

\* The resolver is in the custom-URL phase.
InCustomPhase == pc \in {"probe_custom", "dialog", "match"}

C19_CredentialIffSpawned ==
    (status.state = "sent" /\ status.value[1].ok) =>
        /\ status.value[1].password # None <=> spawned > 0
        /\ path \in {"custom", "adopt", "spawn"}
        /\ path \in {"custom", "adopt"} =>
              /\ status.value[1].password = None
              /\ child = None /\ held = None /\ killCalls = 0
        /\ path = "spawn" =>
              /\ status.value[1].password = password
              /\ password \in {Some(pw) : pw \in Passwords}
              /\ held = None
              /\ child = Some(Pid) \/ killCalls > 0

C19_Witness ==
    /\ status.state = "sent" /\ status.value[1].ok
    /\ path = "custom" /\ pc = "done"
    /\ status.value[1].password = None /\ child = None

\* Some ensure_server_ready call has returned an Ok result with a password.
CredentialObserved ==
    \E c \in Consumers : \E r \in observed[c] : r.ok /\ r.password # None

\* C20: when an Ok result with a password is sent, and so whenever a consumer
\* has observed one, set_child has already run, so that the child is tracked
\* unless kill_sidecar has taken it, and on a Windows build with a job object
\* the assignment has already been made or has been recorded as failed.
C20_TrackedBeforePublished ==
    /\ CredentialObserved =>
          (status.state = "sent" /\ status.value[1].password # None)
    /\ (status.state = "sent" /\ status.value[1].ok
          /\ status.value[1].password # None) =>
          /\ held = None
          /\ child = Some(Pid) \/ killCalls > 0
          /\ (platform = "windows" /\ job = "open") =>
                (Pid \in jobMembers \/ jobError # None)

C20_Witness ==
    /\ CredentialObserved
    /\ platform = "windows" /\ Pid \in jobMembers
    /\ child = Some(Pid) /\ killCalls = 0

\* C24: normalize_hostname_for_url applied to its own result returns that
\* result: normalize(normalize(h)) = normalize(h) for every hostname h.
C24_NormalizeIdempotent ==
    renormalized # None => renormalized = normalized

C24_Witness ==
    /\ hostname = WILDCARD_V6
    /\ normalized = Some(BRACKETED_LOOPBACK_V6)
    /\ renormalized = Some(BRACKETED_LOOPBACK_V6)

\* The CLI reported a configuration that has a server section with a port.
HasServerPort(cfg) ==
    /\ cfg # None
    /\ cfg[1].server # None
    /\ cfg[1].server[1].port # None

\* C23: the CLI configuration yields a URL exactly when it has a server section
\* with a port; the URL is then http://<host>:<port> with the normalized
\* configured hostname as host, or 127.0.0.1 without a configured hostname.
\* Without a stored URL, what the configuration yields is the custom URL, and a
\* configuration without a port, with a hostname or not, leaves no custom URL
\* and sends the resolver to the local-spawn phase without any custom probe.
C23_ConfigUrlIffPort ==
    /\ cliUrl # None <=> HasServerPort(cliConfig)
    /\ HasServerPort(cliConfig) =>
          LET server == cliConfig[1].server[1] IN
          /\ Len(cliUrl[1]) = 4
          /\ cliUrl[1][1] = "http://" /\ cliUrl[1][3] = ":"
          /\ cliUrl[1][4] = server.port[1]
          /\ server.hostname = None => cliUrl[1][2] = LOOPBACK_V4
          /\ server.hostname # None =>
                cliUrl[1][2] = NormalizeHostnameForUrl(server.hostname[1])
          /\ server.hostname = Some(WILDCARD_V4) => cliUrl[1][2] = LOOPBACK_V4
          /\ server.hostname = Some(EXAMPLE_COM) => cliUrl[1][2] = EXAMPLE_COM
          /\ server.hostname \in {Some(WILDCARD_V6), Some(LOOPBACK_V6)} =>
                cliUrl[1][2] = BRACKETED_LOOPBACK_V6
    /\ (pc # "discover" /\ storedUrl = None) =>
          /\ custom_url = cliUrl
          /\ HasServerPort(cliConfig) => (customProbes > 0 \/ ~InLocalPhase)
          /\ ~HasServerPort(cliConfig) =>
                (custom_url = None /\ InLocalPhase /\ customProbes = 0)

C23_Witness ==
    /\ storedUrl = None
    /\ cliConfig = Some(Config(Some(ServerConfig(Some(EXAMPLE_COM), None))))
    /\ custom_url = None /\ cliConsulted
    /\ pc = "spawn" /\ customProbes = 0

\* C21: the polling loop ends in the timeout failure only when more than
\* MAX_WAIT_SECS have elapsed since the spawn, without a probe in that step and
\* after at least one probe, every probe having returned false; and a probe
\* that returns true, made after the sleep, ends the loop with Ok and the child
\* that was spawned, however much time has elapsed by then.
C21_PollingLoop ==
    /\ [](path = "timeout" =>
            /\ elapsed * TickSecs > MAX_WAIT_SECS
            /\ pollProbes >= 1
            /\ ~res[1].ok)
    /\ [](path = "spawn" =>
            /\ res[1].ok /\ spawned = 1
            /\ held = Some(Pid) \/ child = Some(Pid) \/ killCalls > 0)
    /\ [][(pc = "poll" /\ pc' # "poll") =>
            \/ /\ path' = "spawn" /\ res'[1].ok
               /\ elapsed' > elapsed
               /\ elapsed * TickSecs <= MAX_WAIT_SECS
               /\ held = Some(Pid) /\ held' = held
            \/ /\ path' = "timeout" /\ ~res'[1].ok
               /\ elapsed * TickSecs > MAX_WAIT_SECS
               /\ elapsed' = elapsed /\ pollProbes' = pollProbes
               /\ pollProbes >= 1]_vars

C21_Witness ==
    /\ path = "spawn" /\ pc = "done"
    /\ elapsed * TickSecs > MAX_WAIT_SECS
    /\ pollProbes >= 1
    /\ child = Some(Pid) /\ status.value[1].ok

\* C22: while get_logs holds the log lock no append is under way and the ring
\* holds at most MAX_LOG_ENTRIES entries, the last ones appended; the snapshot
\* in the timeout failure is the concatenation of whole entries, at most
\* MAX_LOG_ENTRIES of them, which are the last of the lines appended before it
\* was taken; and the lines are appended in the order they were received, each
\* with the tag of its stream.
C22_SnapshotExcludesIngestion ==
    /\ logLock = "get_logs" =>
          /\ pending = None
          /\ Len(logs) <= MAX_LOG_ENTRIES
          /\ logs = LastN(history, MAX_LOG_ENTRIES)
    /\ logLock = "free" => pending = None
    /\ path = "timeout" =>
          /\ snapLen >= 0 /\ snapLen <= Len(history)
          /\ Len(res[1].err) <= 1 + 2 * MAX_LOG_ENTRIES
          /\ Len(res[1].err) =
                1 + 2 * (IF snapLen < MAX_LOG_ENTRIES THEN snapLen
                         ELSE MAX_LOG_ENTRIES)
          /\ res[1].err =
                <<"Failed to spawn OpenCode Server. Logs:\n">>
                \o Join(LastN(SubSeq(history, 1, snapLen), MAX_LOG_ENTRIES))
    /\ \A i \in 1..Len(history) :
          history[i] = <<Tag(ScriptStream(i)), ScriptLine(i)>>

C22_Witness ==
    /\ path = "timeout"
    /\ snapLen > MAX_LOG_ENTRIES
    /\ pending # None /\ pending[2] = "evict"
    /\ Len(logs) > MAX_LOG_ENTRIES

====
